---- MODULE Spec2Model ----
(***************************************************************************)
(* Verification model of korrekt/src/circuit_analyzer/analyzer.rs          *)
(* (halo2-analyzer): the uniqueness prover (analyze_underconstrained,      *)
(* uniqueness_assertion, solve_and_get_model), the three dead-code         *)
(* analyses, and the encoder (decompose_expression, decompose_polynomial), *)
(* each under its own specification: SpecUniq, SpecDead, SpecEnc.          *)
(*                                                                         *)
(* The SMT encoding written by decompose_polynomial and by the equality    *)
(* tables is represented by its meaning: `base` is the set of assignments  *)
(* to the tracked variables (printer.vars) that satisfy it.  Every         *)
(* assertion uniqueness_assertion adds is kept syntactically in `asserts`  *)
(* and evaluated by Holds.  The solver is a complete decision procedure:   *)
(* a query answers Unsatisfiable when nothing satisfies the assertions in  *)
(* effect and otherwise returns any one satisfying assignment; a query may *)
(* also fail.  instance_cols_string is taken to name tracked variables     *)
(* only: a key that is not tracked adds a pin on a fresh variable in       *)
(* Specific mode and nothing in Random mode.                               *)
(***************************************************************************)
EXTENDS Integers, Sequences, FiniteSets, TLC

(***************************************************************************)
(* Bounds of the model.                                                    *)
(***************************************************************************)
FieldPrime == 2
MaxIterations == 2
MaxGates == 2
MaxRegions == 2
MaxCalls == 2

\* printer.vars.keys(): the names declared by write_var while encoding.
variables == {"A-0-0-0", "A-0-1-0"}

Field == 0 .. (FieldPrime - 1)

Assignments == [variables -> Field]

\* The meanings an encoding can have: every set of assignments is the
\* solution set of some system of polynomial equations over the field.
Encodings == SUBSET Assignments

EmptyResult == [v \in {} |-> 0]

VARIABLES
    \* ---- analyze_underconstrained / uniqueness_assertion ----
    base,                   \* meaning of the SMT file before uniqueness_assertion
    verification_method,    \* analyzer_input.verification_method
    iterations,             \* analyzer_input.verification_input.iterations
    instance_cols_string,   \* HashMap<String, i64>
    decompose_result,       \* Result of decompose_polynomial: "Ok" | "Err"
    pc,                     \* position in analyze_underconstrained / uniqueness_assertion
    asserts,                \* assertions written by uniqueness_assertion, with their scope
    depth,                  \* open scopes: pushes minus pops
    max_iterations,
    i,                      \* loop variable of `for i in 1..=max_iterations`
    model,                  \* model of the current iteration
    result,                 \* local `result` of uniqueness_assertion
    ua_return,              \* what uniqueness_assertion returned: "None" | "Ok" | "Err"
    au_return,              \* how analyze_underconstrained ended: "None" | "Ok" | "Err" | "Panic"
    output_status,          \* analyzer_output.output_status
    queries,                \* the answer of every solve_and_get_model call so far
    n_push,                 \* write_push calls so far
    n_pop,                  \* write_pop calls so far
    examined,               \* the instance values of the model of each iteration so far
    \* ---- the dead-code analyses ----
    cs_gates,               \* self.cs.gates
    cs_advice_queries,      \* self.cs.advice_queries
    regions,                \* self.layouter.regions
    log,                    \* self.log
    counter,                \* self.counter
    output,                 \* output_status of the AnalyzerOutput last returned
    log_before,             \* length of the log when the last analysis was called
    n_calls,                \* analyses run so far
    \* ---- decompose_polynomial ----
    cs_lookups,             \* self.cs.lookups
    fixed,                  \* fixed: Vec<Vec<CellValue<F>>>, column-major
    smt,                    \* the assertions written to the printer so far
    printer_vars,           \* printer.vars: the names declared by write_var
    stage,                  \* position in decompose_polynomial
    cursor,                 \* indices of the loops at that position
    dp_return               \* what decompose_polynomial returned: "None" | "Ok" | "Err"

uvars == <<base, verification_method, iterations, instance_cols_string,
           decompose_result, pc, asserts, depth, max_iterations, i, model,
           result, ua_return, au_return, output_status, queries, n_push, n_pop,
           examined>>

circuit == <<cs_gates, cs_advice_queries, regions>>

dvars == <<circuit, log, counter, output, log_before, n_calls>>

evars == <<cs_lookups, fixed, smt, printer_vars, stage, cursor, dp_return>>

vars == <<uvars, dvars, evars>>

\* decompose_polynomial is not running and has written nothing.
EncIdle ==
    /\ cs_lookups = <<>>
    /\ fixed = <<>>
    /\ smt = <<>>
    /\ printer_vars = {}
    /\ stage = "idle"
    /\ cursor = <<>>
    /\ dp_return = "None"

(***************************************************************************)
(* Assertions and the solver.                                              *)
(***************************************************************************)
Keys == DOMAIN instance_cols_string

\* smt::get_assert(name, value, _, op): the literal (= name value) or its negation.
get_assert(name, value, op) == <<name, op, value>>

LitHolds(l, m) ==
    IF l[2] = "Equal" THEN m[l[1]] = l[3] ELSE m[l[1]] # l[3]

\* An assertion is (and conj... [(or disj...)]); `or` tells whether the
\* disjunction is present.  An (or ) without operand is not a term.
Malformed(a) == a.or /\ a.disj = {}

Holds(a, m) ==
    /\ \A l \in a.conj : LitHolds(l, m)
    /\ a.or => \E l \in a.disj : LitHolds(l, m)

InEffect == {asserts[k] : k \in 1 .. Len(asserts)}

Solutions == {m \in base : \A a \in InEffect : Holds(a, m)}

Failure(kind) == [kind |-> kind, sat |-> "None", result |-> EmptyResult]

Unsat == [kind |-> "Model", sat |-> "Unsatisfiable", result |-> EmptyResult]

\* solve_and_get_model, lines 743-766: the answers a query can get.  The
\* copy of the file or the parse of the output fails (Err, lines 748, 765),
\* the file cannot be opened or the process cannot be started (the expect
\* and unwrap of lines 752 and 761 panic), or the solver answers.  A file
\* that holds a malformed term has no model to return.
solve_and_get_model ==
    LET answers ==
            IF (\E a \in InEffect : Malformed(a)) \/ Solutions = {}
            THEN {Unsat}
            ELSE {[kind |-> "Model", sat |-> "Satisfiable", result |-> m] : m \in Solutions}
    IN  answers \cup {Failure("Err"), Failure("Panic")}

NoModel == [kind |-> "Model", sat |-> "None", result |-> EmptyResult]

Answer(r) == IF r.kind = "Model" THEN r.sat ELSE r.kind

RECURSIVE SetToSeq(_)
SetToSeq(S) ==
    IF S = {} THEN <<>>
    ELSE LET x == CHOOSE y \in S : TRUE
         IN  <<x>> \o SetToSeq(S \ {x})

(***************************************************************************)
(* Initial states: an encoding, a verification input, nothing run yet.     *)
(***************************************************************************)
\* AnalyzerInput: Specific carries the user's value of every instance
\* column; Random carries the iteration budget (values stay 0, line 202).
SpecificInputs == UNION {[K -> Field] : K \in SUBSET variables}

RandomInputs == UNION {[K -> {0}] : K \in SUBSET variables}

InitUniq ==
    /\ base \in Encodings
    /\ \/ /\ verification_method = "Specific"
          /\ instance_cols_string \in SpecificInputs
          /\ iterations = 0
       \/ /\ verification_method = "Random"
          /\ instance_cols_string \in RandomInputs
          /\ iterations \in 0 .. MaxIterations
    /\ decompose_result = "None"
    /\ pc = "encode"
    /\ asserts = <<>>
    /\ depth = 0
    /\ max_iterations = 1
    /\ i = 0
    /\ model = NoModel
    /\ result = "None"
    /\ ua_return = "None"
    /\ au_return = "None"
    /\ output_status = "None"
    /\ queries = <<>>
    /\ n_push = 0
    /\ n_pop = 0
    /\ examined = <<>>
    /\ cs_gates = <<>>
    /\ cs_advice_queries = <<>>
    /\ regions = <<>>
    /\ log = <<>>
    /\ counter = 0
    /\ output = "None"
    /\ log_before = 0
    /\ n_calls = 0
    /\ EncIdle

inputs == <<base, verification_method, iterations, instance_cols_string>>

(***************************************************************************)
(* analyze_underconstrained, lines 230-309.                                *)
(***************************************************************************)
\* line 239: File::create fails and `?` returns the error.
AU_CreateFails ==
    /\ pc = "encode"
    /\ pc' = "done"
    /\ au_return' = "Err"
    /\ UNCHANGED <<dvars, evars, inputs, examined, decompose_result, asserts, depth, max_iterations, i,
                   model, result, ua_return, output_status, queries, n_push, n_pop>>

\* line 242: the Result of decompose_polynomial is dropped, so the function
\* goes on to uniqueness_assertion whatever it is.
AfterDecompose(r) == "ua_begin"

\* lines 236-295: write the encoding (decompose_polynomial, which returns
\* the error of a failing get_assert, line 537; then the equality tables).
AU_Encode ==
    /\ pc = "encode"
    /\ \E r \in {"Ok", "Err"} :
          /\ decompose_result' = r
          /\ pc' = AfterDecompose(r)
          /\ au_return' = IF AfterDecompose(r) = "done" THEN "Err" ELSE au_return
    /\ output_status' = "Invalid"
    /\ UNCHANGED <<dvars, evars, inputs, examined, asserts, depth, max_iterations, i, model, result,
                   ua_return, queries, n_push, n_pop>>

\* lines 297-308: `?` on the result of uniqueness_assertion.
AU_Return ==
    /\ pc = "au_after"
    /\ pc' = "done"
    /\ IF ua_return = "Ok"
       THEN /\ output_status' = result
            /\ au_return' = "Ok"
       ELSE /\ au_return' = "Err"
            /\ UNCHANGED output_status
    /\ UNCHANGED <<dvars, evars, inputs, examined, decompose_result, asserts, depth, max_iterations, i,
                   model, result, ua_return, queries, n_push, n_pop>>

(***************************************************************************)
(* uniqueness_assertion, lines 568-714.                                    *)
(***************************************************************************)
\* line 574
InitialResult == "NotUnderconstrainedLocal"

\* lines 586-592: write_assert(var, value, Instance, Equal)
Pin(var) ==
    [kind |-> "pin", conj |-> {get_assert(var, instance_cols_string[var], "Equal")},
     disj |-> {}, or |-> FALSE, lvl |-> 0]

\* lines 574-598
UA_Begin ==
    /\ pc = "ua_begin"
    /\ result' = InitialResult
    /\ IF verification_method = "Specific"
       THEN /\ asserts' = [k \in 1 .. Cardinality(Keys) |-> Pin(SetToSeq(Keys)[k])]
            /\ max_iterations' = 1
       ELSE /\ asserts' = <<>>
            /\ max_iterations' = iterations
    /\ pc' = "first_query"
    /\ UNCHANGED <<dvars, evars, inputs, examined, decompose_result, depth, i, model, ua_return, au_return,
                   output_status, queries, n_push, n_pop>>

\* `?` on a failed query returns the error (lines 600, 607, 680); a panic
\* inside solve_and_get_model unwinds through both functions.
QueryFails(r) ==
    /\ r.kind # "Model"
    /\ IF r.kind = "Err"
       THEN /\ ua_return' = "Err"
            /\ pc' = "au_after"
            /\ UNCHANGED au_return
       ELSE /\ au_return' = "Panic"
            /\ pc' = "done"
            /\ UNCHANGED ua_return

Return(status) ==
    /\ result' = status
    /\ ua_return' = "Ok"
    /\ pc' = "au_after"
    /\ UNCHANGED au_return

FirstUnsatStatus_swapped == "NotUnderconstrained"

\* line 602
FirstUnsatStatus == "Overconstrained"

\* lines 599-604
UA_FirstQuery ==
    /\ pc = "first_query"
    /\ \E r \in solve_and_get_model :
          /\ queries' = Append(queries, Answer(r))
          /\ \/ QueryFails(r) /\ UNCHANGED <<result, i>>
             \/ /\ r.kind = "Model"
                /\ IF r.sat = "Unsatisfiable"
                   THEN Return(FirstUnsatStatus) /\ UNCHANGED i
                   ELSE /\ pc' = "loop"
                        /\ i' = 1
                        /\ UNCHANGED <<result, ua_return, au_return>>
    /\ UNCHANGED <<dvars, evars, inputs, examined, decompose_result, asserts, depth, max_iterations, model,
                   output_status, n_push, n_pop>>

LoopExhausted_exclusive == i >= max_iterations

\* line 605: the range 1..=max_iterations is exhausted
LoopExhausted == i > max_iterations

\* lines 605, 713: Ok(result)
UA_LoopExit ==
    /\ pc = "loop"
    /\ LoopExhausted
    /\ ua_return' = "Ok"
    /\ pc' = "au_after"
    /\ UNCHANGED <<dvars, evars, inputs, examined, decompose_result, asserts, depth, max_iterations, i, model,
                   result, au_return, output_status, queries, n_push, n_pop>>

\* lines 696-700: the value the model gives to each instance column it holds
InstancePoint(m) == [var \in DOMAIN m.result \cap Keys |-> m.result[var]]

\* lines 605-616
UA_LoopQuery ==
    /\ pc = "loop"
    /\ ~LoopExhausted
    /\ \E r \in solve_and_get_model :
          /\ queries' = Append(queries, Answer(r))
          /\ \/ QueryFails(r) /\ UNCHANGED <<result, model, examined>>
             \/ /\ r.kind = "Model"
                /\ IF r.sat = "Unsatisfiable"
                   THEN Return("NotUnderconstrained") /\ UNCHANGED <<model, examined>>
                   ELSE /\ model' = r
                        /\ examined' = Append(examined, InstancePoint(r))
                        /\ pc' = "push"
                        /\ UNCHANGED <<result, ua_return, au_return>>
    /\ UNCHANGED <<dvars, evars, inputs, decompose_result, asserts, depth, max_iterations, i,
                   output_status, n_push, n_pop>>

\* line 619
UA_Push ==
    /\ pc = "push"
    /\ depth' = depth + 1
    /\ n_push' = n_push + 1
    /\ pc' = "assert"
    /\ UNCHANGED <<dvars, evars, inputs, examined, decompose_result, asserts, max_iterations, i, model, result,
                   ua_return, au_return, output_status, queries, n_pop>>

\* lines 632-637: the variable is an instance column and the mode is not Specific
FixedInIteration(var) == var \in Keys /\ verification_method # "Specific"

same_assignments_none(m) == {}

\* lines 638-647
same_assignments(m) ==
    {get_assert(var, m.result[var], "Equal") :
        var \in {v \in variables : FixedInIteration(v)}}

\* lines 648-659
diff_assignments(m) ==
    {get_assert(var, m.result[var], "NotEqual") :
        var \in {v \in variables : ~FixedInIteration(v)}}

\* lines 662-675: (assert (and (and same... (or diff...))))
UniqAssertion(m) ==
    [kind |-> "uniq", conj |-> same_assignments(m), disj |-> diff_assignments(m),
     or |-> TRUE, lvl |-> depth]

\* lines 627-675
UA_AssertUniq ==
    /\ pc = "assert"
    /\ asserts' = Append(asserts, UniqAssertion(model))
    /\ pc' = "second_query"
    /\ UNCHANGED <<dvars, evars, inputs, examined, decompose_result, depth, max_iterations, i, model, result,
                   ua_return, au_return, output_status, queries, n_push, n_pop>>

FoundAlternate_inverted(r) == r.sat = "Unsatisfiable"

\* line 681
FoundAlternate(r) == r.sat = "Satisfiable"

\* lines 678-690
UA_SecondQuery ==
    /\ pc = "second_query"
    /\ \E r \in solve_and_get_model :
          /\ queries' = Append(queries, Answer(r))
          /\ \/ QueryFails(r) /\ UNCHANGED result
             \/ /\ r.kind = "Model"
                /\ IF FoundAlternate(r)
                   THEN Return("Underconstrained")
                   ELSE /\ pc' = "pop"
                        /\ UNCHANGED <<result, ua_return, au_return>>
    /\ UNCHANGED <<dvars, evars, inputs, examined, decompose_result, asserts, depth, max_iterations, i, model,
                   output_status, n_push, n_pop>>

UA_Pop_keeps_assertions ==
    /\ pc = "pop"
    /\ depth' = depth - 1
    /\ n_pop' = n_pop + 1
    /\ pc' = "block"
    /\ UNCHANGED <<dvars, evars, inputs, examined, decompose_result, asserts, max_iterations, i,
                   model, result, ua_return, au_return, output_status, queries, n_push>>

\* line 691: (pop 1) discards what was asserted in the scope.
UA_Pop ==
    /\ pc = "pop"
    /\ asserts' = SelectSeq(asserts, LAMBDA a : a.lvl < depth)
    /\ depth' = depth - 1
    /\ n_pop' = n_pop + 1
    /\ pc' = "block"
    /\ UNCHANGED <<dvars, evars, inputs, examined, decompose_result, max_iterations, i, model, result,
                   ua_return, au_return, output_status, queries, n_push>>

negated_model_variable_assignments_not_negated(m) ==
    {get_assert(var, m.result[var], "Equal") :
        var \in {v \in DOMAIN m.result : v \in Keys}}

negated_model_variable_assignments_of_inputs(m) ==
    {get_assert(var, instance_cols_string[var], "NotEqual") :
        var \in {v \in DOMAIN m.result : v \in Keys}}

\* lines 694-706
negated_model_variable_assignments(m) ==
    {get_assert(var, m.result[var], "NotEqual") :
        var \in {v \in DOMAIN m.result : v \in Keys}}

BlockingClause_conjunction(m) ==
    [kind |-> "block", conj |-> negated_model_variable_assignments(m), disj |-> {},
     or |-> FALSE, lvl |-> depth]

\* lines 707-711: (assert (or neg...))
BlockingClause(m) ==
    [kind |-> "block", conj |-> {}, disj |-> negated_model_variable_assignments(m),
     or |-> TRUE, lvl |-> depth]

\* lines 693-712, and the step of the `for`
UA_Block ==
    /\ pc = "block"
    /\ asserts' = Append(asserts, BlockingClause(model))
    /\ i' = i + 1
    /\ pc' = "loop"
    /\ UNCHANGED <<dvars, evars, inputs, examined, decompose_result, depth, max_iterations, model, result,
                   ua_return, au_return, output_status, queries, n_push, n_pop>>

\* lines 646, 657, 703: `?` on get_assert returns its error.
UA_GetAssertFails ==
    /\ \/ pc = "assert"
       \/ pc = "block" /\ negated_model_variable_assignments(model) # {}
    /\ ua_return' = "Err"
    /\ pc' = "au_after"
    /\ UNCHANGED <<dvars, evars, inputs, examined, decompose_result, asserts, depth, max_iterations, i, model,
                   result, au_return, output_status, queries, n_push, n_pop>>

NextUniq ==
    \/ AU_CreateFails
    \/ AU_Encode
    \/ UA_Begin
    \/ UA_FirstQuery
    \/ UA_LoopExit
    \/ UA_LoopQuery
    \/ UA_Push
    \/ UA_AssertUniq
    \/ UA_SecondQuery
    \/ UA_Pop
    \/ UA_Block
    \/ UA_GetAssertFails
    \/ AU_Return

SpecUniq == InitUniq /\ [][NextUniq]_vars

(***************************************************************************)
(* Properties of the uniqueness prover.                                    *)
(***************************************************************************)
Statuses == {"Overconstrained", "Underconstrained", "NotUnderconstrained",
             "NotUnderconstrainedLocal"}

AgreeOnInstances(m1, m2) == \A v \in Keys \cap variables : m1[v] = m2[v]

DifferOnWitness(m1, m2) == \E v \in variables \ Keys : m1[v] # m2[v]

\* The encoded system has two witnesses of one public input.
TwoWitnesses ==
    \E m1, m2 \in base : AgreeOnInstances(m1, m2) /\ DifferOnWitness(m1, m2)

\* Every value of the instance variables has exactly one witness.
EveryInputOneWitness ==
    \A p \in [Keys -> Field] :
        Cardinality({m \in base : \A v \in Keys : m[v] = p[v]}) = 1

\* C1: Underconstrained is returned only if the encoded system has two
\* satisfying assignments that agree on every instance variable and differ
\* on a non-instance variable; a system in which every public input has
\* exactly one witness yields NotUnderconstrained or NotUnderconstrainedLocal,
\* in both modes and for every iteration budget.
C1_UnderconstrainedIsSound ==
    /\ (result = "Underconstrained" \/ output_status = "Underconstrained")
           => TwoWitnesses
    /\ (EveryInputOneWitness /\ ua_return = "Ok")
           => result \in {"NotUnderconstrained", "NotUnderconstrainedLocal"}

C1_Witness ==
    /\ pc = "done"
    /\ output_status = "Underconstrained"
    /\ verification_method = "Random"
    /\ Keys # {}
    /\ Len(queries) > 3

\* The satisfying assignments once the instance variables are pinned.
PinnedSolutions == {m \in base : \A v \in Keys : m[v] = instance_cols_string[v]}

\* C2: in Specific mode, when the system with the instance variables pinned
\* has two different satisfying assignments, a call that returns a status
\* returns Underconstrained, whichever model the solver returned first.
C2_SpecificFindsSecondWitness ==
    (/\ verification_method = "Specific"
     /\ ua_return = "Ok"
     /\ Cardinality(PinnedSolutions) >= 2)
        => result = "Underconstrained"

C2_Witness ==
    /\ pc = "done"
    /\ verification_method = "Specific"
    /\ Keys # {}
    /\ Cardinality(PinnedSolutions) = 2
    /\ PinnedSolutions # base
    /\ output_status = "Underconstrained"

PinCount == IF verification_method = "Specific" THEN Cardinality(Keys) ELSE 0

\* C3: when the first query answers Unsatisfiable the result is
\* Overconstrained, and nothing follows it: one query in all, no push, no
\* pop, and no assertion besides the Specific-mode pins made before it.
C3_FirstUnsatIsOverconstrained ==
    (queries # <<>> /\ queries[1] = "Unsatisfiable")
        => /\ ua_return = "Ok"
           /\ result = "Overconstrained"
           /\ pc = "done" => output_status = "Overconstrained"
           /\ Len(queries) = 1
           /\ n_push = 0 /\ n_pop = 0 /\ depth = 0
           /\ Len(asserts) = PinCount
           /\ \A k \in 1 .. Len(asserts) : asserts[k].kind = "pin"

C3_Witness ==
    /\ pc = "done"
    /\ queries = <<"Unsatisfiable">>
    /\ verification_method = "Specific"
    /\ Keys # {}
    /\ au_return = "Ok"

\* C4 as claimed: in Specific mode a satisfiable system that has no
\* satisfying assignment with the instance variables pinned yields
\* NotUnderconstrained (stated for the runs whose encoding succeeded).
C4_PinnedUnsatIsNotUnderconstrained ==
    (/\ decompose_result = "Ok"
     /\ verification_method = "Specific"
     /\ ua_return = "Ok"
     /\ base # {}
     /\ PinnedSolutions = {})
        => result = "NotUnderconstrained"

\* The budget the call was given.
Budget == IF verification_method = "Specific" THEN 1 ELSE iterations

\* An upper bound of the steps a run still takes: six per iteration left.
StepsLeft ==
    CASE pc = "encode"       -> 6 * Budget + 10
      [] pc = "ua_begin"     -> 6 * Budget + 9
      [] pc = "first_query"  -> 6 * Budget + 8
      [] pc = "loop"         -> 6 * (max_iterations + 1 - i) + 7
      [] pc = "push"         -> 6 * (max_iterations + 1 - i) + 6
      [] pc = "assert"       -> 6 * (max_iterations + 1 - i) + 5
      [] pc = "second_query" -> 6 * (max_iterations + 1 - i) + 4
      [] pc = "pop"          -> 6 * (max_iterations + 1 - i) + 3
      [] pc = "block"        -> 6 * (max_iterations + 1 - i) + 2
      [] pc = "au_after"     -> 1
      [] OTHER               -> 0

\* The answers of a run in which every iteration found a model and no
\* alternate witness for it.
AllIterationsCompleted ==
    /\ Len(queries) = 1 + 2 * max_iterations
    /\ \A k \in 1 .. Len(queries) :
          queries[k] = IF k = 1 \/ k % 2 = 0 THEN "Satisfiable" ELSE "Unsatisfiable"

C5_Bounded ==
    /\ result # "None" =>
          max_iterations = IF verification_method = "Specific" THEN 1 ELSE iterations
    /\ i <= max_iterations + 1
    /\ StepsLeft >= 0
    /\ Len(queries) <= 1 + 2 * max_iterations
    /\ n_push <= max_iterations
    /\ ua_return = "Ok" =>
          (result = "NotUnderconstrainedLocal" <=> AllIterationsCompleted)

\* C5: the search loop ends after at most max_iterations iterations (1 in
\* Specific mode, the configured bound in Random mode, 0 included), and the
\* status is NotUnderconstrainedLocal exactly when every one of them ran to
\* its end: each found a model and no alternate witness for it.  Ending is
\* stated by a measure: every step lowers StepsLeft, which is never
\* negative, and a run stops only when the function has returned.
C5_LoopTerminates ==
    /\ [](C5_Bounded /\ (pc = "done" \/ ENABLED NextUniq))
    /\ [][StepsLeft' < StepsLeft]_vars

C5_Witness ==
    /\ pc = "done"
    /\ verification_method = "Random"
    /\ iterations = MaxIterations
    /\ output_status = "NotUnderconstrainedLocal"

QueryFailed == queries # <<>> /\ queries[Len(queries)] \in {"Err", "Panic"}

\* C6 as claimed: when a solver query fails, uniqueness_assertion returns an
\* error and no status, does nothing more after the failed query, and
\* analyze_underconstrained returns that error to its caller (stated for the
\* runs whose encoding succeeded).
C6_QueryFailureIsReturned ==
    (QueryFailed /\ decompose_result = "Ok")
        => /\ ua_return = "Err"
           /\ pc \in {"au_after", "done"}
           /\ output_status \notin Statuses
           /\ pc = "done" => au_return = "Err"

\* C7 as claimed: when decompose_polynomial fails, analyze_underconstrained
\* returns an error, issues no solver query and produces no status.
C7_EncodingFailureAborts ==
    decompose_result = "Err"
        => /\ queries = <<>>
           /\ output_status \notin Statuses
           /\ au_return # "Ok"

\* C14: in Random mode no two iterations examine models with the same
\* values of the instance variables: the model of a later iteration differs
\* from the model of every earlier iteration (which found no alternate
\* witness) on at least one instance variable.
C14_NoPointExaminedTwice ==
    verification_method = "Random" =>
        \A a, b \in 1 .. Len(examined) :
            a < b => \E var \in Keys : examined[a][var] # examined[b][var]

C14_Witness ==
    /\ verification_method = "Random"
    /\ Len(examined) >= 2
    /\ Cardinality(Keys) = 1
    /\ pc = "done"

\* The public-input points that admit a witness.
PublicPoints == {[var \in Keys |-> m[var]] : m \in base}

\* The iterations of the loop begun so far: each begins with a query, and
\* all but the last were followed by the query for an alternate witness.
IterationsBegun == Len(queries) \div 2

\* C15 as claimed: in Random mode, for a system with exactly k public-input
\* points that admit a witness and a budget of at least k, the loop ends
\* within k iterations (stated for the runs whose encoding succeeded, of a
\* system that has an instance variable).
C15_TerminatesWithinK ==
    (/\ decompose_result = "Ok"
     /\ verification_method = "Random"
     /\ Keys # {}
     /\ iterations >= Cardinality(PublicPoints))
        => IterationsBegun <= Cardinality(PublicPoints)

\* C15 amended: in Random mode, for a system with exactly k public-input
\* points that admit a witness and a budget of at least k, at most k
\* iterations examine a model and the loop ends within k + 1 iterations: an
\* iteration k + 1 issues only its first query, which returns no model, and
\* the function then returns NotUnderconstrained or the error of the query.
C15_TerminatesWithinKPlusOne ==
    LET k == Cardinality(PublicPoints)
    IN  (verification_method = "Random" /\ iterations >= k)
            => /\ Len(examined) <= k
               /\ IterationsBegun <= k + 1
               /\ IterationsBegun = k + 1 =>
                     /\ Len(queries) = 2 * (k + 1)
                     /\ queries[2 * (k + 1)] # "Satisfiable"
                     /\ pc \in {"au_after", "done"}
                     /\ ua_return = "Ok" => result = "NotUnderconstrained"

C15_Witness ==
    /\ pc = "done"
    /\ verification_method = "Random"
    /\ Keys # {}
    /\ Cardinality(PublicPoints) = 1
    /\ Cardinality(base) = 1
    /\ iterations = 2
    /\ IterationsBegun = 2
    /\ output_status = "NotUnderconstrained"

\* C16 as claimed: uniqueness_assertion pops exactly the scopes it pushed:
\* the depth is never above 1 nor below 0, and whenever it returns a status
\* (Overconstrained, NotUnderconstrained, Underconstrained or
\* NotUnderconstrainedLocal) it has issued as many pops as pushes (stated
\* for the runs whose encoding succeeded).
C16_PushPopBalanced ==
    decompose_result = "Ok" =>
        /\ depth \in {0, 1}
        /\ depth = n_push - n_pop
        /\ ua_return = "Ok" => n_pop = n_push

\* The pin of an instance variable, as an assertion outside every scope.
IsPinOf(a, var) ==
    /\ a.kind = "pin"
    /\ a.conj = {<<var, "Equal", instance_cols_string[var]>>}
    /\ ~a.or
    /\ a.lvl = 0

\* The clause that forbids the instance values `point`, outside every scope.
IsBlockOf(a, point) ==
    /\ a.kind = "block"
    /\ a.conj = {}
    /\ a.or
    /\ a.disj = {<<var, "NotEqual", point[var]>> : var \in DOMAIN point}
    /\ a.lvl = 0

\* The 'same public input, different witness' assertion of model m, in the
\* scope pushed for it.
IsUniqOf(a, m) ==
    /\ a.kind = "uniq"
    /\ a.lvl = 1
    /\ a.or
    /\ \A l \in a.conj \cup a.disj : l[3] = m.result[l[1]]
    /\ \A l \in a.conj : l[2] = "Equal"
    /\ \A l \in a.disj : l[2] = "NotEqual"
    /\ {l[1] : l \in a.conj \cup a.disj} = variables

\* The assertions in effect besides the base encoding are the pins and the
\* blocking clauses of the first n iterations, in this order.
PinsAndBlocks(n) ==
    /\ Len(asserts) >= PinCount + n
    /\ Len(examined) >= n
    /\ \A var \in (IF PinCount = 0 THEN {} ELSE Keys) :
          \E k \in 1 .. PinCount : IsPinOf(asserts[k], var)
    /\ \A k \in 1 .. n : IsBlockOf(asserts[PinCount + k], examined[k])

\* C17: the 'same public input, different witness' assertion of an
\* iteration is made inside the scope pushed in that iteration and is in
\* effect at the second query of that iteration only; the blocking clause is
\* asserted after the pop, outside every scope.  At the first query of
\* iteration j + 1 the assertions in effect are exactly the base encoding,
\* the Specific-mode pins and the j blocking clauses of the completed
\* iterations.
C17_ScopedAssertions ==
    /\ pc \in {"first_query", "loop"} =>
          /\ depth = 0
          /\ Len(examined) = IF pc = "loop" THEN i - 1 ELSE 0
          /\ Len(asserts) = PinCount + Len(examined)
          /\ PinsAndBlocks(Len(examined))
    /\ pc = "second_query" =>
          /\ depth = 1
          /\ Len(examined) = i
          /\ Len(asserts) = PinCount + i
          /\ PinsAndBlocks(i - 1)
          /\ IsUniqOf(asserts[Len(asserts)], model)
    /\ pc = "block" =>
          /\ depth = 0
          /\ Len(asserts) = PinCount + i - 1
          /\ PinsAndBlocks(i - 1)

C17_Witness ==
    /\ pc = "loop"
    /\ i = 2
    /\ ~LoopExhausted
    /\ verification_method = "Random"
    /\ Keys # {}
    /\ variables \ Keys # {}
    /\ Cardinality(base) > 1

Constant(a) == <<"Constant", a, 0>>
Selector(a) == <<"Selector", a, 0>>
Fixed(column_index, rotation) == <<"Fixed", column_index, rotation>>
Advice(column_index, rotation) == <<"Advice", column_index, rotation>>
Instance(column_index, rotation) == <<"Instance", column_index, rotation>>
Negated(a) == <<"Negated", a, 0>>
Sum(a, b) == <<"Sum", a, b>>
Product(a, b) == <<"Product", a, b>>
Scaled(a, c) == <<"Scaled", a, c>>

\* abstract_expr::eval_abstract(expr, selectors): Zero, NonZero or Unknown.
RECURSIVE eval_abstract(_, _)
eval_abstract(expr, selectors) ==
    CASE expr[1] = "Constant" -> IF expr[2] = 0 THEN "Zero" ELSE "Unknown"
      [] expr[1] = "Selector" -> IF expr[2] \in selectors THEN "NonZero" ELSE "Zero"
      [] expr[1] \in {"Fixed", "Advice", "Instance"} -> "Unknown"
      [] expr[1] = "Negated" -> eval_abstract(expr[2], selectors)
      [] expr[1] = "Sum" ->
            IF /\ eval_abstract(expr[2], selectors) = "Zero"
               /\ eval_abstract(expr[3], selectors) = "Zero"
            THEN "Zero" ELSE "Unknown"
      [] expr[1] = "Product" ->
            IF \/ eval_abstract(expr[2], selectors) = "Zero"
               \/ eval_abstract(expr[3], selectors) = "Zero"
            THEN "Zero" ELSE "Unknown"
      [] expr[1] = "Scaled" ->
            IF \/ expr[3] = 0
               \/ eval_abstract(expr[2], selectors) = "Zero"
            THEN "Zero" ELSE "Unknown"

\* abstract_expr::extract_columns(expr): the Fixed and Advice references.
RECURSIVE extract_columns(_)
extract_columns(expr) ==
    CASE expr[1] \in {"Fixed", "Advice"} -> {expr}
      [] expr[1] \in {"Constant", "Selector", "Instance"} -> {}
      [] expr[1] \in {"Negated", "Scaled"} -> extract_columns(expr[2])
      [] expr[1] \in {"Sum", "Product"} ->
            extract_columns(expr[2]) \cup extract_columns(expr[3])

\* The gates a circuit is built from: name and polynomials.
GateUniverse ==
    { [name |-> "mul",   polys |-> <<Product(Selector(0), Advice(0, 0))>>],
      [name |-> "both",  polys |-> <<Product(Selector(0), Advice(0, 0)),
                                     Scaled(Product(Selector(1),
                                         Sum(Advice(1, 1), Negated(Fixed(0, 0)))), 3)>>],
      [name |-> "free",  polys |-> <<Sum(Advice(0, 0), Negated(Advice(0, 1)))>>],
      [name |-> "zero",  polys |-> <<Constant(0),
                                     Product(Selector(0), Selector(1))>>] }

\* (RegionColumn, Rotation): a selector column or a column of the circuit.
RegionSelector(s) == <<"Selector", s, 0>>

\* The regions a layout is made of: name, enabled selectors, columns used.
RegionUniverse ==
    { [name |-> "idle", selectors |-> {},
       columns |-> {RegionSelector(0), Advice(0, 0), Advice(1, 1)}],
      [name |-> "first", selectors |-> {0},
       columns |-> {RegionSelector(0), Advice(0, 0), Advice(1, 1)}],
      [name |-> "second", selectors |-> {1},
       columns |-> {RegionSelector(1), Fixed(0, 0), Advice(0, 1), Advice(2, 0)}],
      [name |-> "all", selectors |-> {0, 1},
       columns |-> {RegionSelector(1), Fixed(0, 0), Advice(1, 1), Advice(0, 1)}] }

AdviceQueryLists ==
    { <<>>,
      <<Advice(0, 0), Advice(1, 0), Advice(1, 1)>>,
      <<Advice(2, 0), Advice(0, 1), Advice(0, 0)>> }

SeqsUpTo(S, n) == UNION {[1 .. k -> S] : k \in 0 .. n}

InitDead ==
    /\ cs_gates \in SeqsUpTo(GateUniverse, MaxGates)
    /\ cs_advice_queries \in AdviceQueryLists
    /\ regions \in SeqsUpTo(RegionUniverse, MaxRegions)
    /\ log = <<>>
    /\ counter = 0
    /\ output = "None"
    /\ log_before = 0
    /\ n_calls = 0
    /\ base = {}
    /\ verification_method = "Random"
    /\ iterations = 0
    /\ instance_cols_string = EmptyResult
    /\ decompose_result = "None"
    /\ pc = "idle"
    /\ asserts = <<>>
    /\ depth = 0
    /\ max_iterations = 1
    /\ i = 0
    /\ model = NoModel
    /\ result = "None"
    /\ ua_return = "None"
    /\ au_return = "None"
    /\ output_status = "None"
    /\ queries = <<>>
    /\ n_push = 0
    /\ n_pop = 0
    /\ examined = <<>>
    /\ EncIdle

(***************************************************************************)
(* analyze_unused_custom_gates, lines 89-116.                              *)
(***************************************************************************)
PushAll_fresh(l, findings) == findings

\* lines 109, 142, 181: self.log.push(..), once per finding, in their order
PushAll(l, findings) == l \o findings

GateResultUsed_nonzero_only(res) == res = "NonZero"

\* line 100: res != AbsResult::Zero
GateResultUsed(res) == res # "Zero"

\* lines 98-104: the polynomials of the gate under one region's selectors;
\* TRUE when the loop sets `used` and breaks out of 'region_search.
RECURSIVE PolySearch(_, _, _)
PolySearch(polys, k, selectors) ==
    IF k > Len(polys) THEN FALSE
    ELSE IF GateResultUsed(eval_abstract(polys[k], selectors)) THEN TRUE
    ELSE PolySearch(polys, k + 1, selectors)

\* lines 96-105: 'region_search; the value of `used` after it.
RECURSIVE RegionSearch(_, _)
RegionSearch(gate, r) ==
    IF r > Len(regions) THEN FALSE
    ELSE IF PolySearch(gate.polys, 1, regions[r].selectors) THEN TRUE
    ELSE RegionSearch(gate, r + 1)

\* line 109
UnusedGateMessage(gate) == [msg |-> "unused gate", name |-> gate.name]

\* lines 92-111: what the loop over the gates, from gate g on, pushes.
RECURSIVE UnusedGateLoop(_)
UnusedGateLoop(g) ==
    IF g > Len(cs_gates) THEN <<>>
    ELSE (IF ~RegionSearch(cs_gates[g], 1)
          THEN <<UnusedGateMessage(cs_gates[g])>> ELSE <<>>)
         \o UnusedGateLoop(g + 1)

analyze_unused_custom_gates ==
    /\ pc = "idle"
    /\ n_calls < MaxCalls
    /\ n_calls' = n_calls + 1
    /\ log_before' = Len(log)
    /\ log' = PushAll(log, UnusedGateLoop(1))
    /\ output' = "UnusedCustomGates"
    /\ UNCHANGED <<uvars, evars, circuit, counter>>

(***************************************************************************)
(* analyze_unused_columns, lines 125-149.                                  *)
(***************************************************************************)
ColumnInPoly_any_rotation(advices, query) ==
    \E a \in advices : a[1] = query[1] /\ a[2] = query[2]

\* line 134: advices.contains(&(column.into(), rotation))
ColumnInPoly(advices, query) == query \in advices

\* lines 132-137: the polynomials of one gate; `used` is only ever set.
RECURSIVE ColumnPolyLoop(_, _, _, _)
ColumnPolyLoop(polys, k, query, used) ==
    IF k > Len(polys) THEN used
    ELSE ColumnPolyLoop(polys, k + 1, query,
            IF ColumnInPoly(extract_columns(polys[k]), query) THEN TRUE ELSE used)

\* lines 131-138
RECURSIVE ColumnGateLoop(_, _, _)
ColumnGateLoop(g, query, used) ==
    IF g > Len(cs_gates) THEN used
    ELSE ColumnGateLoop(g + 1, query,
            ColumnPolyLoop(cs_gates[g].polys, 1, query, used))

\* line 142: the message names the column, not the rotation
UnusedColumnMessage(query) ==
    [msg |-> "unused column", column |-> <<query[1], query[2]>>]

\* lines 128-144
RECURSIVE UnusedColumnLoop(_)
UnusedColumnLoop(q) ==
    IF q > Len(cs_advice_queries) THEN <<>>
    ELSE (IF ~ColumnGateLoop(1, cs_advice_queries[q], FALSE)
          THEN <<UnusedColumnMessage(cs_advice_queries[q])>> ELSE <<>>)
         \o UnusedColumnLoop(q + 1)

analyze_unused_columns ==
    /\ pc = "idle"
    /\ n_calls < MaxCalls
    /\ n_calls' = n_calls + 1
    /\ log_before' = Len(log)
    /\ log' = PushAll(log, UnusedColumnLoop(1))
    /\ output' = "UnusedColumns"
    /\ UNCHANGED <<uvars, evars, circuit, counter>>

(***************************************************************************)
(* analyze_unconstrained_cells, lines 154-189.                             *)
(***************************************************************************)
SkippedEntry_never(entry) == FALSE

\* line 163: RegionColumn::Selector(_) => continue
SkippedEntry(entry) == entry[1] = "Selector"

\* line 170
CellInLivePoly(eval, advices, entry) == eval # "Zero" /\ entry \in advices

\* lines 166-174
RECURSIVE CellPolyLoop(_, _, _, _, _)
CellPolyLoop(polys, k, selectors, entry, used) ==
    IF k > Len(polys) THEN used
    ELSE CellPolyLoop(polys, k + 1, selectors, entry,
            IF CellInLivePoly(eval_abstract(polys[k], selectors),
                              extract_columns(polys[k]), entry)
            THEN TRUE ELSE used)

\* lines 165-175
RECURSIVE CellGateLoop(_, _, _, _)
CellGateLoop(g, selectors, entry, used) ==
    IF g > Len(cs_gates) THEN used
    ELSE CellGateLoop(g + 1, selectors, entry,
            CellPolyLoop(cs_gates[g].polys, 1, selectors, entry, used))

\* line 181
UnconstrainedCellMessage(region, entry) ==
    [msg |-> "unconstrained cell", region |-> region.name,
     column |-> <<entry[1], entry[2]>>, rotation |-> entry[3]]

\* region.columns.iter(): the entries of the HashSet in the order of iteration
ColumnsInOrder(region) == SetToSeq(region.columns)

\* lines 159-183: the entries of one region, from entry e on
RECURSIVE CellEntryLoop(_, _)
CellEntryLoop(region, e) ==
    IF e > Len(ColumnsInOrder(region)) THEN <<>>
    ELSE LET entry == ColumnsInOrder(region)[e]
         IN  (IF SkippedEntry(entry) THEN <<>>
              ELSE IF ~CellGateLoop(1, region.selectors, entry, FALSE)
                   THEN <<UnconstrainedCellMessage(region, entry)>>
                   ELSE <<>>)
             \o CellEntryLoop(region, e + 1)

\* lines 156-184
RECURSIVE CellRegionLoop(_)
CellRegionLoop(r) ==
    IF r > Len(regions) THEN <<>>
    ELSE CellEntryLoop(regions[r], 1) \o CellRegionLoop(r + 1)

analyze_unconstrained_cells ==
    /\ pc = "idle"
    /\ n_calls < MaxCalls
    /\ n_calls' = n_calls + 1
    /\ log_before' = Len(log)
    /\ log' = PushAll(log, CellRegionLoop(1))
    /\ output' = "UnconstrainedCells"
    /\ UNCHANGED <<uvars, evars, circuit, counter>>

NextDead ==
    \/ analyze_unused_custom_gates
    \/ analyze_unused_columns
    \/ analyze_unconstrained_cells

SpecDead == InitDead /\ [][NextDead]_vars

(***************************************************************************)
(* Properties of the dead-code analyses.                                   *)
(***************************************************************************)
\* What the last analysis pushed to the log.
Appended == SubSeq(log, log_before + 1, Len(log))

Occurrences(seq, x) == Cardinality({k \in 1 .. Len(seq) : seq[k] = x})

\* Every polynomial of the gate is Zero under the selectors of every region.
GateIsUnused(gate) ==
    \A r \in 1 .. Len(regions) : \A k \in 1 .. Len(gate.polys) :
        eval_abstract(gate.polys[k], regions[r].selectors) = "Zero"

UnusedGates == SelectSeq(cs_gates, GateIsUnused)

\* C8: analyze_unused_custom_gates appends one "unused gate" finding for a
\* gate if and only if every polynomial of the gate evaluates to Zero under
\* the selector set of every region (so always when there is no region);
\* the findings come in the order of the gates, one per unused gate.
C8_UnusedGatesReportedOnce ==
    output = "UnusedCustomGates"
        => Appended = [k \in 1 .. Len(UnusedGates) |-> UnusedGateMessage(UnusedGates[k])]

C8_Witness ==
    /\ output = "UnusedCustomGates"
    /\ regions # <<>>
    /\ \E r \in 1 .. Len(regions) : regions[r].selectors # {}
    /\ Len(cs_gates) = 2
    /\ cs_gates[1].polys = <<Product(Selector(0), Advice(0, 0))>>
    /\ Appended = <<UnusedGateMessage(cs_gates[1])>>

\* A gate polynomial references the entry and is not Zero under the
\* selectors of the region.
CellIsConstrained(region, entry) ==
    \E g \in 1 .. Len(cs_gates) : \E k \in 1 .. Len(cs_gates[g].polys) :
        /\ entry \in extract_columns(cs_gates[g].polys[k])
        /\ eval_abstract(cs_gates[g].polys[k], region.selectors) # "Zero"

UnconstrainedCells ==
    {c \in {<<r, entry>> : r \in 1 .. Len(regions), entry \in UNION {
                regions[q].columns : q \in 1 .. Len(regions)}} :
        /\ c[2] \in regions[c[1]].columns
        /\ c[2][1] # "Selector"
        /\ ~CellIsConstrained(regions[c[1]], c[2])}

\* C9: analyze_unconstrained_cells appends a finding for a (column,
\* rotation) entry of a region if and only if the entry is not a selector
\* column and no gate polynomial both references it and evaluates to
\* something other than Zero under the selectors of that region; a selector
\* entry never gives a finding.
C9_UnconstrainedCellsReported ==
    output = "UnconstrainedCells"
        => /\ Len(Appended) = Cardinality(UnconstrainedCells)
           /\ \A c \in UnconstrainedCells :
                Occurrences(Appended, UnconstrainedCellMessage(regions[c[1]], c[2]))
                  = Cardinality({d \in UnconstrainedCells :
                        UnconstrainedCellMessage(regions[d[1]], d[2])
                          = UnconstrainedCellMessage(regions[c[1]], c[2])})
           /\ \A k \in 1 .. Len(Appended) : Appended[k].column[1] # "Selector"

C9_Witness ==
    /\ output = "UnconstrainedCells"
    /\ Appended # <<>>
    /\ \E r \in 1 .. Len(regions) : \E entry \in regions[r].columns :
          /\ CellIsConstrained(regions[r], entry)
          /\ \E other \in regions[r].columns :
                other[1] # "Selector" /\ ~CellIsConstrained(regions[r], other)
          /\ \E sel \in regions[r].columns : sel[1] = "Selector"

\* The query is in extract_columns of no polynomial of any gate.
QueryIsUnused(query) ==
    \A g \in 1 .. Len(cs_gates) : \A k \in 1 .. Len(cs_gates[g].polys) :
        query \notin extract_columns(cs_gates[g].polys[k])

UnusedQueries == SelectSeq(cs_advice_queries, QueryIsUnused)

\* C10: analyze_unused_columns appends a finding for a declared advice query
\* (column, rotation) if and only if the pair is in extract_columns of no
\* polynomial of any gate, whatever the selectors of the regions.
C10_UnusedColumnsReported ==
    output = "UnusedColumns"
        => Appended = [k \in 1 .. Len(UnusedQueries) |-> UnusedColumnMessage(UnusedQueries[k])]

C10_Witness ==
    /\ output = "UnusedColumns"
    /\ regions # <<>>
    /\ Appended # <<>>
    /\ Len(Appended) < Len(cs_advice_queries)
    /\ \E q \in 1 .. Len(cs_advice_queries) : \E p \in 1 .. Len(cs_advice_queries) :
          /\ cs_advice_queries[q][2] = cs_advice_queries[p][2]
          /\ QueryIsUnused(cs_advice_queries[q])
          /\ ~QueryIsUnused(cs_advice_queries[p])

\* The violations the analysis that returned `tag` has to report.
Violations(tag) ==
    CASE tag = "UnusedCustomGates"  -> Len(UnusedGates)
      [] tag = "UnusedColumns"      -> Len(UnusedQueries)
      [] tag = "UnconstrainedCells" -> Cardinality(UnconstrainedCells)
      [] OTHER                      -> -1

\* C11: whatever the sequence of calls, each call of a dead-code analysis
\* leaves the constraint system, the regions and the counter as they were,
\* keeps the entries of the log in place and adds one entry per violation
\* found after them, and returns the status tag of that analysis, with or
\* without violations.
C11_AnalysesOnlyAppend ==
    [][/\ cs_gates' = cs_gates
       /\ cs_advice_queries' = cs_advice_queries
       /\ regions' = regions
       /\ counter' = counter
       /\ Len(log') >= Len(log)
       /\ SubSeq(log', 1, Len(log)) = log
       /\ output' \in {"UnusedCustomGates", "UnusedColumns", "UnconstrainedCells"}
       /\ Len(log') - Len(log) = Violations(output')
      ]_vars

\* A second call that found nothing, after a call that logged findings.
C11_Witness ==
    /\ n_calls > 1
    /\ log_before > 0
    /\ Len(log) = log_before
    /\ output = "UnusedColumns"
    /\ cs_gates # <<>> /\ regions # <<>>

(***************************************************************************)
(* decompose_expression and decompose_polynomial, lines 338-560.           *)
(*                                                                         *)
(* A term of the SMT file is kept as a tree: <<"const", a>> is (as ffa F), *)
(* <<"var", name>> a declared name, <<"empty">> the empty string, and      *)
(* <<"neg", t>>, <<"add", l, r>>, <<"mul", l, r>> the field operations.    *)
(* Region, row, gate, polynomial and lookup indices count from 0 as in the *)
(* code.                                                                   *)
(***************************************************************************)
\* CellValue<F>
Unassigned == <<"Unassigned", 0>>
Assigned(f) == <<"Assigned", f>>
Poison == <<"Poison", 0>>

SelectorName_first_row(region_no, a, row_num) == <<"S", region_no, a, 0>>

\* line 351: format!("S-{:?}-{}-{}", region_no, a.0, row_num)
SelectorName(region_no, a, row_num) == <<"S", region_no, a, row_num>>

\* lines 359-364, 369-374: "F-.." and "A-..", the row being rotation + row_num
CellName(letter, region_no, column_index, rotation, row_num) ==
    <<letter, region_no, column_index, rotation + row_num>>

\* lines 338-446: the term of the expression (the NodeType returned with it
\* only decides where parentheses go).
RECURSIVE decompose_expression(_, _, _, _)
decompose_expression(poly, region_no, row_num, es) ==
    CASE poly[1] = "Constant" -> <<"const", poly[2]>>
      [] poly[1] = "Selector" ->
            IF SelectorName(region_no, poly[2], row_num) \in es
            THEN <<"const", 1>> ELSE <<"const", 0>>
      [] poly[1] = "Fixed" ->
            <<"var", CellName("F", region_no, poly[2], poly[3], row_num)>>
      [] poly[1] = "Advice" ->
            <<"var", CellName("A", region_no, poly[2], poly[3], row_num)>>
      [] poly[1] = "Instance" -> <<"empty">>
      [] poly[1] = "Negated" ->
            <<"neg", decompose_expression(poly[2], region_no, row_num, es)>>
      [] poly[1] = "Sum" ->
            <<"add", decompose_expression(poly[2], region_no, row_num, es),
                     decompose_expression(poly[3], region_no, row_num, es)>>
      [] poly[1] = "Product" ->
            <<"mul", decompose_expression(poly[2], region_no, row_num, es),
                     decompose_expression(poly[3], region_no, row_num, es)>>
      [] poly[1] = "Scaled" ->
            <<"mul", decompose_expression(Constant(poly[3]), region_no, row_num, es),
                     decompose_expression(poly[2], region_no, row_num, es)>>

\* line 375: the names smt::write_var declares while the expression is decomposed
RECURSIVE write_var(_, _, _)
write_var(poly, region_no, row_num) ==
    CASE poly[1] = "Advice" -> {CellName("A", region_no, poly[2], poly[3], row_num)}
      [] poly[1] \in {"Constant", "Selector", "Fixed", "Instance"} -> {}
      [] poly[1] \in {"Negated", "Scaled"} -> write_var(poly[2], region_no, row_num)
      [] poly[1] \in {"Sum", "Product"} ->
            write_var(poly[2], region_no, row_num) \cup write_var(poly[3], region_no, row_num)

End == <<>>

\* lines 458-461: the indices the four nested loops reach next, from
\* (region_no, row_num, gate, poly) on; End when the loops are over.
RECURSIVE GateCursor(_, _, _, _)
GateCursor(region_no, row_num, g, k) ==
    IF region_no >= Len(regions) THEN End
    ELSE IF row_num >= regions[region_no + 1].row_count
         THEN GateCursor(region_no + 1, 0, 0, 0)
    ELSE IF g >= Len(cs_gates) THEN GateCursor(region_no, row_num + 1, 0, 0)
    ELSE IF k >= Len(cs_gates[g + 1].polys) THEN GateCursor(region_no, row_num, g + 1, 0)
    ELSE <<region_no, row_num, g, k>>

\* lines 482-484: the same for the three loops over the lookups
RECURSIVE LookupCursor(_, _, _)
LookupCursor(region_no, row_num, l) ==
    IF region_no >= Len(regions) THEN End
    ELSE IF row_num >= regions[region_no + 1].row_count
         THEN LookupCursor(region_no + 1, 0, 0)
    ELSE IF l >= Len(cs_lookups) THEN LookupCursor(region_no, row_num + 1, 0)
    ELSE <<region_no, row_num, l>>

\* lines 470-476: write_assert(printer, node_str, "0", Poly, Equal); `at`
\* records the loop indices the assertion was written at.
GateAssertion(region_no, row_num, g, k) ==
    [kind |-> "gate", at |-> <<region_no, row_num, g, k>>,
     term |-> decompose_expression(cs_gates[g + 1].polys[k + 1], region_no, row_num,
                                   regions[region_no + 1].enabled_selectors),
     op |-> "Equal", value |-> 0]

\* lines 486-495
cons_str_vec(lookup, region_no, row_num) ==
    [n \in 1 .. Len(lookup.input_expressions) |->
        decompose_expression(lookup.input_expressions[n], region_no, row_num,
                             regions[region_no + 1].enabled_selectors)]

\* lines 497-505: the column of every table expression that is a Fixed query
col_indices(lookup) ==
    LET fixed_queries == SelectSeq(lookup.table_expressions, LAMBDA e : e[1] = "Fixed")
    IN  [n \in 1 .. Len(fixed_queries) |-> fixed_queries[n][2]]

\* lines 518-530: the text compared with the input: the value of an Assigned
\* cell, and the empty string for a Poison cell
CellText(cell) == IF cell[1] = "Assigned" THEN <<"const", cell[2]>> ELSE <<"empty">>

\* line 533: cons_str_vec[col], col being the index into col_indices
InputOfColumn(lookup, col) == col + 1

\* lines 515-539: the equalities of one table row, from index col on; exit
\* is set when an Unassigned cell is met.
RECURSIVE ColLoop(_, _, _, _, _, _)
ColLoop(lookup, region_no, row_num, row, col, equalities) ==
    IF col >= Len(col_indices(lookup)) THEN [exit |-> FALSE, equalities |-> equalities]
    ELSE LET cell == fixed[col_indices(lookup)[col + 1] + 1][row + 1]
             input == InputOfColumn(lookup, col)
             sa == [input |-> input, column |-> col_indices(lookup)[col + 1],
                    eq |-> get_assert(cons_str_vec(lookup, region_no, row_num)[input],
                                      CellText(cell), "Equal")]
         IN  IF cell = Unassigned
             THEN [exit |-> TRUE, equalities |-> equalities]
             ELSE ColLoop(lookup, region_no, row_num, row, col + 1,
                          Append(equalities, sa))

\* line 546: smt::get_and over the equalities of table row `row`
get_and(equalities, row) == [row |-> row, and |-> equalities]

RECURSIVE RowLoop(_, _, _, _, _)

AfterGap_next_row(lookup, region_no, row_num, row, big_cons) ==
    RowLoop(lookup, region_no, row_num, row + 1, big_cons)

\* lines 510-512, 540-542: once exit is set the loop over the rows ends
AfterGap(lookup, region_no, row_num, row, big_cons) == big_cons

\* lines 508-549: the conjunctions of the table rows, from row `row` on
RowLoop(lookup, region_no, row_num, row, big_cons) ==
    IF row >= Len(fixed[1]) THEN big_cons
    ELSE LET c == ColLoop(lookup, region_no, row_num, row, 0, <<>>)
         IN  IF c.exit
             THEN AfterGap(lookup, region_no, row_num, row, big_cons)
             ELSE RowLoop(lookup, region_no, row_num, row + 1,
                          Append(big_cons, get_and(c.equalities, row)))

\* line 554: write_assert_bool(printer, big_cons_str, Or)
LookupAssertion(region_no, row_num, l) ==
    [kind |-> "lookup", at |-> <<region_no, row_num, l>>,
     or |-> RowLoop(cs_lookups[l + 1], region_no, row_num, 0, <<>>)]

\* The names declared while the input expressions of a lookup are decomposed.
LookupVars(lookup, region_no, row_num) ==
    UNION {write_var(lookup.input_expressions[n], region_no, row_num) :
             n \in 1 .. Len(lookup.input_expressions)}

\* The iteration of the lookup calls smt::get_assert at least once.
CallsGetAssert(lookup) ==
    /\ Len(col_indices(lookup)) > 0
    /\ Len(fixed[1]) > 0
    /\ fixed[col_indices(lookup)[1] + 1][1] # Unassigned

(***************************************************************************)
(* The circuits decompose_polynomial is run on.                            *)
(***************************************************************************)
\* Lookups: input expressions and table expressions, in parallel.
LookupUniverse ==
    { [input_expressions |-> <<Advice(0, 0)>>,
       table_expressions |-> <<Fixed(0, 0)>>],
      [input_expressions |-> <<Product(Selector(0), Advice(0, 0)), Advice(1, 1)>>,
       table_expressions |-> <<Fixed(0, 0), Fixed(1, 0)>>],
      [input_expressions |-> <<Advice(0, 0), Advice(1, 0)>>,
       table_expressions |-> <<Advice(2, 0), Fixed(1, 0)>>] }

LookupLists == SeqsUpTo(LookupUniverse, 1)

\* Fixed columns 0 and 1, three rows each.
FixedMatrices ==
    { << <<Assigned(1), Assigned(0), Unassigned>>,
         <<Assigned(0), Unassigned, Assigned(1)>> >>,
      << <<Assigned(0), Assigned(1), Assigned(1)>>,
         <<Poison, Assigned(1), Assigned(0)>> >>,
      << <<Unassigned, Assigned(1), Assigned(1)>>,
         <<Assigned(1), Assigned(1), Assigned(0)>> >> }

\* What the layouter records of a region: the rows it has and the
\* (selector, row) pairs enabled in it.
Layouts ==
    { [row_count |-> 0, enabled |-> {}],
      [row_count |-> 1, enabled |-> {<<0, 0>>}],
      [row_count |-> 2, enabled |-> {<<0, 0>>, <<1, 1>>}] }

\* The region at index region_no: enabled_selectors holds the name of each
\* enabled selector, made of the region, the selector and the row.
Region(region_no, layout) ==
    [row_count |-> layout.row_count,
     enabled_selectors |-> {<<"S", region_no, e[1], e[2]>> : e \in layout.enabled}]

InitEnc ==
    /\ cs_gates \in SeqsUpTo(GateUniverse, MaxGates)
    /\ \E layouts \in SeqsUpTo(Layouts, MaxRegions) :
          regions = [n \in 1 .. Len(layouts) |-> Region(n - 1, layouts[n])]
    /\ cs_lookups \in LookupLists
    /\ fixed \in FixedMatrices
    /\ smt = <<>>
    /\ printer_vars = {}
    /\ stage = "start"
    /\ cursor = End
    /\ dp_return = "None"
    /\ cs_advice_queries = <<>>
    /\ log = <<>>
    /\ counter = 0
    /\ output = "None"
    /\ log_before = 0
    /\ n_calls = 0
    /\ base = {}
    /\ verification_method = "Random"
    /\ iterations = 0
    /\ instance_cols_string = EmptyResult
    /\ decompose_result = "None"
    /\ pc = "idle"
    /\ asserts = <<>>
    /\ depth = 0
    /\ max_iterations = 1
    /\ i = 0
    /\ model = NoModel
    /\ result = "None"
    /\ ua_return = "None"
    /\ au_return = "None"
    /\ output_status = "None"
    /\ queries = <<>>
    /\ n_push = 0
    /\ n_pop = 0
    /\ examined = <<>>

(***************************************************************************)
(* decompose_polynomial, lines 452-560, one step per assertion written.    *)
(***************************************************************************)
\* line 457: with no region nothing is written
DP_Begin ==
    /\ stage = "start"
    /\ IF regions = <<>>
       THEN stage' = "return" /\ cursor' = End
       ELSE stage' = "gates" /\ cursor' = GateCursor(0, 0, 0, 0)
    /\ UNCHANGED <<uvars, dvars, cs_lookups, fixed, smt, printer_vars, dp_return>>

\* lines 461-477: one polynomial of one gate at one row of one region
DP_GateAssert ==
    /\ stage = "gates"
    /\ cursor # End
    /\ LET region_no == cursor[1]
           row_num == cursor[2]
           g == cursor[3]
           k == cursor[4]
       IN  /\ smt' = Append(smt, GateAssertion(region_no, row_num, g, k))
           /\ printer_vars' = printer_vars \cup
                 write_var(cs_gates[g + 1].polys[k + 1], region_no, row_num)
           /\ cursor' = GateCursor(region_no, row_num, g, k + 1)
    /\ UNCHANGED <<uvars, dvars, cs_lookups, fixed, stage, dp_return>>

\* line 480 to 482: the loops over the gates are over
DP_GatesDone ==
    /\ stage = "gates"
    /\ cursor = End
    /\ stage' = "lookups"
    /\ cursor' = LookupCursor(0, 0, 0)
    /\ UNCHANGED <<uvars, dvars, cs_lookups, fixed, smt, printer_vars, dp_return>>

\* lines 484-555: one lookup at one row of one region
DP_LookupAssert ==
    /\ stage = "lookups"
    /\ cursor # End
    /\ LET region_no == cursor[1]
           row_num == cursor[2]
           l == cursor[3]
       IN  /\ smt' = Append(smt, LookupAssertion(region_no, row_num, l))
           /\ printer_vars' = printer_vars \cup
                 LookupVars(cs_lookups[l + 1], region_no, row_num)
           /\ cursor' = LookupCursor(region_no, row_num, l + 1)
    /\ UNCHANGED <<uvars, dvars, cs_lookups, fixed, stage, dp_return>>

\* line 537: `?` on smt::get_assert returns its error; the input
\* expressions were decomposed before, nothing is asserted for the lookup.
DP_GetAssertFails ==
    /\ stage = "lookups"
    /\ cursor # End
    /\ CallsGetAssert(cs_lookups[cursor[3] + 1])
    /\ printer_vars' = printer_vars \cup
          LookupVars(cs_lookups[cursor[3] + 1], cursor[1], cursor[2])
    /\ dp_return' = "Err"
    /\ stage' = "returned"
    /\ UNCHANGED <<uvars, dvars, cs_lookups, fixed, smt, cursor>>

\* line 559: Ok(())
DP_Return ==
    /\ \/ stage = "return"
       \/ stage = "lookups" /\ cursor = End
    /\ dp_return' = "Ok"
    /\ stage' = "returned"
    /\ UNCHANGED <<uvars, dvars, cs_lookups, fixed, smt, printer_vars, cursor>>

NextEnc ==
    \/ DP_Begin
    \/ DP_GateAssert
    \/ DP_GatesDone
    \/ DP_LookupAssert
    \/ DP_GetAssertFails
    \/ DP_Return

SpecEnc == InitEnc /\ [][NextEnc]_vars

(***************************************************************************)
(* Properties of the encoding.                                             *)
(***************************************************************************)
RowsOf(region_no) == 0 .. (regions[region_no + 1].row_count - 1)

\* Every (region, row, lookup) of the circuit.
LookupPositions ==
    UNION {{<<region_no, row_num, l>> :
               row_num \in RowsOf(region_no), l \in 0 .. (Len(cs_lookups) - 1)} :
           region_no \in 0 .. (Len(regions) - 1)}

\* The fixed columns the table expressions of the lookup refer to.
TableColumns(lookup) ==
    {lookup.table_expressions[n][2] :
        n \in {m \in 1 .. Len(lookup.table_expressions) :
                  lookup.table_expressions[m][1] = "Fixed"}}

\* The table rows (from 0) that hold an Unassigned cell in a table column.
GapRows(lookup) ==
    {row \in 0 .. (Len(fixed[1]) - 1) :
        \E c \in TableColumns(lookup) : fixed[c + 1][row + 1] = Unassigned}

\* The number of table rows before the first gap.
RowsBeforeGap(lookup) ==
    IF GapRows(lookup) = {} THEN Len(fixed[1])
    ELSE CHOOSE row \in GapRows(lookup) : \A other \in GapRows(lookup) : row <= other

\* C12: for every lookup, region and row, decompose_polynomial asserts one
\* disjunction, and its disjuncts are the table rows before the first row
\* that holds an Unassigned cell in a table column of the lookup, one
\* disjunct per such row, in order; that row and the later ones give none.
C12_LookupRowsUpToFirstGap ==
    /\ \A j \in 1 .. Len(smt) :
          smt[j].kind = "lookup" =>
              /\ smt[j].at \in LookupPositions
              /\ Len(smt[j].or) = RowsBeforeGap(cs_lookups[smt[j].at[3] + 1])
              /\ \A k \in 1 .. Len(smt[j].or) :
                    /\ smt[j].or[k].row = k - 1
                    /\ \A e \in 1 .. Len(smt[j].or[k].and) :
                          smt[j].or[k].and[e].eq[3]
                            = CellText(fixed[smt[j].or[k].and[e].column + 1][k])
              /\ \A k \in 1 .. Len(smt) :
                    (smt[k].kind = "lookup" /\ smt[k].at = smt[j].at) => j = k
    /\ dp_return = "Ok" =>
          Cardinality({j \in 1 .. Len(smt) : smt[j].kind = "lookup"})
            = Cardinality(LookupPositions)

\* A lookup over two table columns whose gap is in the second column, with
\* assigned cells in that row and in the rows after it.
C12_Witness ==
    /\ dp_return = "Ok"
    /\ \E j \in 1 .. Len(smt) :
          /\ smt[j].kind = "lookup"
          /\ Len(smt[j].or) = 1
          /\ Cardinality(TableColumns(cs_lookups[smt[j].at[3] + 1])) = 2
          /\ smt[j].at[2] = 1
    /\ fixed[1][2] # Unassigned
    /\ fixed[2][2] = Unassigned
    /\ fixed[2][3] # Unassigned

\* Every (region, row, gate, polynomial) of the circuit.
GatePositions ==
    UNION {UNION {{<<region_no, row_num, g, k>> :
                      row_num \in RowsOf(region_no),
                      k \in 0 .. (Len(cs_gates[g + 1].polys) - 1)} :
                  g \in 0 .. (Len(cs_gates) - 1)} :
           region_no \in 0 .. (Len(regions) - 1)}

IsGatePosition(pos) ==
    /\ pos[1] \in 0 .. (Len(regions) - 1)
    /\ pos[2] \in RowsOf(pos[1])
    /\ pos[3] \in 0 .. (Len(cs_gates) - 1)
    /\ pos[4] \in 0 .. (Len(cs_gates[pos[3] + 1].polys) - 1)

\* The selector is enabled at that row of that region.
EnabledAt(region_no, selector, row_num) ==
    <<"S", region_no, selector, row_num>> \in regions[region_no + 1].enabled_selectors

\* The cells a polynomial reads at a row of a region.
RECURSIVE PolyCells(_, _, _)
PolyCells(poly, region_no, row_num) ==
    CASE poly[1] = "Fixed" -> {<<"F", region_no, poly[2], poly[3] + row_num>>}
      [] poly[1] = "Advice" -> {<<"A", region_no, poly[2], poly[3] + row_num>>}
      [] poly[1] \in {"Constant", "Selector", "Instance"} -> {}
      [] poly[1] \in {"Negated", "Scaled"} -> PolyCells(poly[2], region_no, row_num)
      [] poly[1] \in {"Sum", "Product"} ->
            PolyCells(poly[2], region_no, row_num) \cup PolyCells(poly[3], region_no, row_num)

\* The value of the polynomial at a row of a region, the cells being given
\* by env and an enabled selector being 1, any other 0.
RECURSIVE PolyValue(_, _, _, _)
PolyValue(poly, region_no, row_num, env) ==
    CASE poly[1] = "Constant" -> poly[2] % FieldPrime
      [] poly[1] = "Selector" -> IF EnabledAt(region_no, poly[2], row_num) THEN 1 ELSE 0
      [] poly[1] = "Fixed" -> env[<<"F", region_no, poly[2], poly[3] + row_num>>]
      [] poly[1] = "Advice" -> env[<<"A", region_no, poly[2], poly[3] + row_num>>]
      [] poly[1] = "Negated" ->
            (FieldPrime - PolyValue(poly[2], region_no, row_num, env)) % FieldPrime
      [] poly[1] = "Sum" ->
            (PolyValue(poly[2], region_no, row_num, env)
               + PolyValue(poly[3], region_no, row_num, env)) % FieldPrime
      [] poly[1] = "Product" ->
            (PolyValue(poly[2], region_no, row_num, env)
               * PolyValue(poly[3], region_no, row_num, env)) % FieldPrime
      [] poly[1] = "Scaled" ->
            (poly[3] * PolyValue(poly[2], region_no, row_num, env)) % FieldPrime

\* The names a term of the SMT file mentions.
RECURSIVE TermVars(_)
TermVars(t) ==
    CASE t[1] = "var" -> {t[2]}
      [] t[1] \in {"const", "empty"} -> {}
      [] t[1] = "neg" -> TermVars(t[2])
      [] t[1] \in {"add", "mul"} -> TermVars(t[2]) \cup TermVars(t[3])

\* The value of a term of the SMT file, the names being given by env.
RECURSIVE TermValue(_, _)
TermValue(t, env) ==
    CASE t[1] = "const" -> t[2] % FieldPrime
      [] t[1] = "var" -> env[t[2]]
      [] t[1] = "neg" -> (FieldPrime - TermValue(t[2], env)) % FieldPrime
      [] t[1] = "add" -> (TermValue(t[2], env) + TermValue(t[3], env)) % FieldPrime
      [] t[1] = "mul" -> (TermValue(t[2], env) * TermValue(t[3], env)) % FieldPrime

\* The assertion states that the polynomial at its place, with 1 for each
\* selector enabled at that region and row and 0 for any other, is zero.
AssertsPolynomial(a) ==
    LET region_no == a.at[1]
        row_num == a.at[2]
        poly == cs_gates[a.at[3] + 1].polys[a.at[4] + 1]
    IN  /\ a.op = "Equal"
        /\ a.value = 0
        /\ TermVars(a.term) = PolyCells(poly, region_no, row_num)
        /\ \A env \in [PolyCells(poly, region_no, row_num) -> Field] :
              TermValue(a.term, env) = PolyValue(poly, region_no, row_num, env)

\* C13: when decompose_polynomial returns it has written, for every region,
\* every row of it, every gate and every polynomial of the gate, exactly one
\* assertion that the polynomial's term is zero, in which a selector is the
\* literal 1 when it is enabled at that region and row and the literal 0
\* otherwise; no polynomial is skipped for any region or row.
C13_EveryGatePolynomialAsserted ==
    stage = "returned" =>
        /\ \A j \in 1 .. Len(smt) :
              smt[j].kind = "gate" =>
                  /\ IsGatePosition(smt[j].at)
                  /\ AssertsPolynomial(smt[j])
                  /\ \A k \in 1 .. Len(smt) :
                        (smt[k].kind = "gate" /\ smt[k].at = smt[j].at) => j = k
        /\ Cardinality({j \in 1 .. Len(smt) : smt[j].kind = "gate"})
             = Cardinality(GatePositions)

\* Two regions, the second with selector 1 enabled at row 1 only, and a
\* gate that multiplies by each selector.
C13_Witness ==
    /\ dp_return = "Ok"
    /\ Len(regions) = 2
    /\ EnabledAt(1, 1, 1) /\ ~EnabledAt(1, 1, 0)
    /\ EnabledAt(1, 0, 0) /\ ~EnabledAt(1, 0, 1)
    /\ \E j \in 1 .. Len(smt) :
          /\ smt[j].kind = "gate"
          /\ smt[j].at[1] = 1 /\ smt[j].at[2] = 1 /\ smt[j].at[4] = 1
          /\ cs_gates[smt[j].at[3] + 1].polys[2][1] = "Scaled"

\* C18 as claimed: the conjunction built for a table row constrains every
\* input expression of the lookup: the input expression at each position is
\* equated once, with the value at that row of the fixed column that the
\* table expression at the same position refers to, also when some table
\* expression is not a Fixed reference.
C18_EveryInputConstrained ==
    \A j \in 1 .. Len(smt) :
        smt[j].kind = "lookup" =>
            LET lookup == cs_lookups[smt[j].at[3] + 1]
            IN  \A k \in 1 .. Len(smt[j].or) :
                  \A n \in 1 .. Len(lookup.input_expressions) :
                    /\ Cardinality({e \in 1 .. Len(smt[j].or[k].and) :
                                       smt[j].or[k].and[e].input = n}) = 1
                    /\ lookup.table_expressions[n][1] = "Fixed" =>
                          \E e \in 1 .. Len(smt[j].or[k].and) :
                              /\ smt[j].or[k].and[e].input = n
                              /\ smt[j].or[k].and[e].column = lookup.table_expressions[n][2]
                              /\ smt[j].or[k].and[e].eq[3]
                                   = CellText(fixed[lookup.table_expressions[n][2] + 1][k])

====
